---------------------------- MODULE Spec2Model ----------------------------
(***************************************************************************)
(* Model of the voice-assistant demo: the audio-reactive sphere of         *)
(* app/gui.py (the producer callback, the queue and the periodic on_tick   *)
(* consumer) and the glue of app/server.py and app/model.py that carries   *)
(* logic of its own (generate_response and the audio-file janitor).        *)
(*                                                                         *)
(* Floating-point quantities are fixed-point integers with Scale units per *)
(* 1.0 (TLC's integers are 32 bits wide, which Scale = 10^4 respects in    *)
(* every product below).  Divisions truncate toward minus infinity.        *)
(***************************************************************************)
EXTENDS Integers, Sequences, FiniteSets, TLC

VARIABLES
    stream,     \* gui: self.stream, "started" or "none" (micro non dispo)
    audio_q,    \* gui: the queue.Queue of blocks, head first
    rms,        \* gui: self.rms, fixed point
    pulse,      \* gui: self.pulse, fixed point
    tick,       \* gui: self.tick, fixed point (radians)
    pc,         \* gui: position of the UI thread inside on_tick
    acc,        \* gui: on_tick's local rms (sum of the blocks' mean squares)
    count,      \* gui: on_tick's local count
    pushed,     \* history: every block put, in order
    consumed,   \* history: every block got, in order, with the tick that got it
    nticks,     \* history: number of on_tick calls started
    gen,        \* server: the last generate_response call and its result
    served,     \* server: number of generate_response calls made
    files,      \* server: AUDIO_OUTPUT_DIR, name -> [kind, mtime]
    clock,      \* server: time.time(), in seconds
    jpc,        \* janitor: position of the cleaner thread
    now,        \* janitor: clean_old_files' local now
    thr,        \* janitor: clean_old_files' older_than_seconds
    todo,       \* janitor: names of the listing not yet visited
    sweeps,     \* history: number of clean_old_files calls started
    removed,    \* history: every os.remove that succeeded
    listed,     \* history: the listing of the current sweep
    failed      \* history: names whose visit raised in the current sweep

guiVars == <<stream, audio_q, rms, pulse, tick, pc, acc, count, pushed, consumed, nticks>>
genVars == <<gen, served>>
janVars == <<files, clock, jpc, now, thr, todo, sweeps, removed, listed, failed>>
vars == <<guiVars, genVars, janVars>>

----------------------------------------------------------------------------
(* Bounds of the model *)

MaxTicks == 3      \* on_tick calls explored while audio may flow
MaxPush == 3       \* blocks the producer pushes in one behaviour
BlockLen == 2      \* samples per block (3200 in the program)
IdleTicks == 130   \* on_tick calls explored when no block is ever pushed
LoudTicks == 2     \* ticks of arbitrary audio before the silence begins
SilenceTicks == 60 \* on_tick calls explored in the silence scenario
Settle == 45       \* silent ticks after which the loudness has died away
MaxRequests == 2   \* generate_response calls in one behaviour
MaxSweeps == 3     \* clean_old_files calls in one behaviour
StartClock == 20000 \* time.time() when the backend starts

----------------------------------------------------------------------------
(* Fixed-point arithmetic *)

Scale == 10 ^ 4

Min(a, b) == IF a <= b THEN a ELSE b
Max(a, b) == IF a >= b THEN a ELSE b

\* floor(sqrt(n)) by bisection on lo..hi, lo*lo <= n < (hi+1)*(hi+1)
RECURSIVE ISqrtIn(_, _, _)
ISqrtIn(n, lo, hi) ==
    IF lo >= hi THEN lo
    ELSE LET mid == (lo + hi + 1) \div 2
         IN  IF mid * mid <= n THEN ISqrtIn(n, mid, hi) ELSE ISqrtIn(n, lo, mid - 1)

\* np.sqrt of a fixed-point value v in [0, 1]: sqrt(v/Scale)*Scale = sqrt(v*Scale)
Sqrt(v) == ISqrtIn(v * Scale, 0, Scale)

Pi == 31416
TwoPi == 2 * Pi
HalfPi == Pi \div 2

\* sin on [0, pi/2]: the Taylor polynomial up to x^9 in Horner form, clipped
\* to the range of np.sin
SinQ(x) ==
    LET x2 == (x * x) \div Scale
        a == Scale - x2 \div 72
        b == Scale - ((x2 * a) \div Scale) \div 42
        c == Scale - ((x2 * b) \div Scale) \div 20
        d == Scale - ((x2 * c) \div Scale) \div 6
    IN  Min(Scale, (x * d) \div Scale)

\* np.sin of a fixed-point angle t >= 0
Sin(t) ==
    LET x == t % TwoPi
    IN  IF x <= HalfPi THEN SinQ(x)
        ELSE IF x <= Pi THEN SinQ(Pi - x)
        ELSE IF x <= Pi + HalfPi THEN 0 - SinQ(x - Pi)
        ELSE 0 - SinQ(TwoPi - x)

----------------------------------------------------------------------------
(* gui.py: audio blocks *)

\* A block of BlockLen samples all equal to v
ConstBlock(v) == [i \in 1..BlockLen |-> v]

\* A block alternating +v, -v
AltBlock(v) == [i \in 1..BlockLen |-> IF i % 2 = 1 THEN v ELSE 0 - v]

Silence == ConstBlock(0)
Tenth == ConstBlock(Scale \div 10)

\* The blocks the audio backend may deliver: silence, 0.1 everywhere, full
\* scale negative, and +-0.5 alternating
Blocks == {Silence, Tenth, ConstBlock(0 - Scale), AltBlock(Scale \div 2)}

RECURSIVE SumSq(_, _)
SumSq(arr, n) == IF n = 0 THEN 0 ELSE arr[n] * arr[n] + SumSq(arr, n - 1)

\* np.mean(np.square(arr))
MeanSq(arr) == (SumSq(arr, Len(arr)) \div Len(arr)) \div Scale

----------------------------------------------------------------------------
(* gui.py: SphereWidget *)

TickStep == 500      \* 0.05 rad

GuiInit ==
    /\ stream \in {"started", "none"}
    /\ audio_q = <<>>
    /\ rms = 0
    /\ pulse = 0
    /\ tick = 0
    /\ pc = "idle"
    /\ acc = 0
    /\ count = 0
    /\ pushed = <<>>
    /\ consumed = <<>>
    /\ nticks = 0

\* audio_q.put(indata.copy()) on an unbounded queue.Queue()
Put(q, block) == Append(q, block)

\* audio_callback, run by the audio backend's thread while the stream runs
AudioCallbackOf(S, cap) ==
    /\ stream = "started"
    /\ Len(pushed) < cap
    /\ \E block \in S :
          /\ audio_q' = Put(audio_q, block)
          /\ pushed' = Append(pushed, block)
    /\ UNCHANGED <<stream, rms, pulse, tick, pc, acc, count, consumed, nticks, genVars, janVars>>

AudioCallback == AudioCallbackOf(Blocks, MaxPush)

\* The timer fires: on_tick starts with rms = 0.0, count = 0
OnTickStart(bound) ==
    /\ pc = "idle"
    /\ nticks < bound
    /\ acc' = 0
    /\ count' = 0
    /\ nticks' = nticks + 1
    /\ pc' = "test"
    /\ UNCHANGED <<stream, audio_q, rms, pulse, tick, pushed, consumed, genVars, janVars>>

\* Mutant: the loop calls get() without testing empty() first
OnTickTestNoGuard ==
    /\ pc = "test"
    /\ pc' = "get"
    /\ UNCHANGED <<stream, audio_q, rms, pulse, tick, acc, count, pushed, consumed, nticks, genVars, janVars>>

\* while not audio_q.empty():
OnTickTest ==
    /\ pc = "test"
    /\ pc' = IF audio_q = <<>> THEN "update" ELSE "get"
    /\ UNCHANGED <<stream, audio_q, rms, pulse, tick, acc, count, pushed, consumed, nticks, genVars, janVars>>

\* Mutant: get() that leaves the block at the head of the queue
RestPeek(q) == q

\* What audio_q.get() leaves in the queue
Rest(q) == Tail(q)

\* block = audio_q.get(); rms += np.mean(np.square(arr)); count += 1
\* get() waits while the queue is empty
OnTickGet ==
    /\ pc = "get"
    /\ audio_q # <<>>
    /\ LET block == Head(audio_q)
       IN  /\ audio_q' = Rest(audio_q)
           /\ acc' = acc + MeanSq(block)
           /\ count' = count + 1
           /\ consumed' = Append(consumed, <<block, nticks>>)
    /\ pc' = "test"
    /\ UNCHANGED <<stream, rms, pulse, tick, pushed, nticks, genVars, janVars>>

\* Mutant: the new loudness is subtracted and the floor is missing
NewRmsSignSlip(old, a, n) ==
    IF n # 0
    THEN (old * 85 - Sqrt(a \div n) * 15) \div 100
    ELSE old

\* Mutant: the blend is applied on every tick, the `if count` test missing
NewRmsAlways(old, a, n) ==
    Max(0, (old * 85 + (IF n # 0 THEN Sqrt(a \div n) ELSE 0) * 15) \div 100)

\* Mutant: the weights 0.85 and 0.15 are swapped
NewRmsSwapped(old, a, n) ==
    IF n # 0
    THEN Max(0, (old * 15 + Sqrt(a \div n) * 85) \div 100)
    ELSE old

\* Mutant: the square root is missing
NewRmsNoSqrt(old, a, n) ==
    IF n # 0
    THEN Max(0, (old * 85 + (a \div n) * 15) \div 100)
    ELSE old

\* if count: self.rms = max(0.0, self.rms*0.85 + sqrt(rms/count)*0.15)
NewRms(old, a, n) ==
    IF n # 0
    THEN Max(0, (old * 85 + Sqrt(a \div n) * 15) \div 100)
    ELSE old

\* breathe = (np.sin(self.tick)+1.0)/2.0
Breathe(t) == (Sin(t) + Scale) \div 2

\* Mutant: the target is not clamped to 1
TargetUnclamped(t, r) == (Breathe(t) * 8) \div 10 + r * 20

\* target = min(1.0, breathe*0.8 + self.rms*20.0)
Target(t, r) == Min(Scale, (Breathe(t) * 8) \div 10 + r * 20)

\* Mutant: the weights 0.8 and 0.3 do not sum to 1
NewPulseNotConvex(p, tg) == (p * 8 + tg * 3) \div 10

\* self.pulse = self.pulse*0.8 + target*0.2
NewPulse(p, tg) == (p * 8 + tg * 2) \div 10

\* The rest of on_tick, on the UI thread alone
OnTickUpdate ==
    /\ pc = "update"
    /\ rms' = NewRms(rms, acc, count)
    /\ tick' = tick + TickStep
    /\ pulse' = NewPulse(pulse, Target(tick', rms'))
    /\ pc' = "idle"
    /\ UNCHANGED <<stream, audio_q, acc, count, pushed, consumed, nticks, genVars, janVars>>

OnTick == OnTickStart(MaxTicks)

GuiNext ==
    \/ AudioCallback
    \/ OnTick
    \/ OnTickTest
    \/ OnTickGet
    \/ OnTickUpdate

----------------------------------------------------------------------------
(* Strings are sequences of one-character strings *)

Whitespace == {" ", "\n", "\t"}

RECURSIVE LStrip(_)
LStrip(s) == IF s = <<>> \/ Head(s) \notin Whitespace THEN s ELSE LStrip(Tail(s))

RECURSIVE RStrip(_)
RStrip(s) ==
    IF s = <<>> \/ s[Len(s)] \notin Whitespace THEN s
    ELSE RStrip(SubSeq(s, 1, Len(s) - 1))

\* str.strip()
Strip(s) == LStrip(RStrip(s))

\* s[:n]
Take(s, n) == SubSeq(s, 1, Min(n, Len(s)))

\* p in text
Contains(text, p) ==
    \E i \in 0..(Len(text) - Len(p)) : SubSeq(text, i + 1, i + Len(p)) = p

----------------------------------------------------------------------------
(* server.py and model.py: generate_response *)

PromptCap == 1000

\* "(Fallback LLM) J'ai reçu : "
FallbackPrefixServer ==
    << "(", "F", "a", "l", "l", "b", "a", "c", "k", " ", "L", "L", "M", ")", " ",
       "J", "'", "a", "i", " ", "r", "e", "ç", "u", " ", ":", " " >>

\* "(fallback) J'ai reçu : "
FallbackPrefixModel ==
    << "(", "f", "a", "l", "l", "b", "a", "c", "k", ")", " ",
       "J", "'", "a", "i", " ", "r", "e", "ç", "u", " ", ":", " " >>

\* server.py: f"(Fallback LLM) J'ai reçu : {prompt[:1000]}"
FallbackServer(prompt) == FallbackPrefixServer \o Take(prompt, PromptCap)

\* model.py: f"(fallback) J'ai reçu : {prompt}"
FallbackModel(prompt) == FallbackPrefixModel \o prompt

\* The prompts tried: empty, short, exactly PromptCap characters, one more
LongPrompt(n) == [i \in 1..n |-> IF i <= PromptCap THEN "a" ELSE "b"]
Prompts == {<<>>, <<"h", "i">>, LongPrompt(PromptCap), LongPrompt(PromptCap + 1)}

\* What `ollama run` may print
Stdouts == {<<>>, <<" ", "\n">>, <<"o", "k">>, <<" ", "o", "k", "\n">>, <<"a", " ", "b", "\n">>}

\* What subprocess.run may do: return a completed process, or raise
\* (TimeoutExpired after 60 s, OSError, a decoding error)
Outcomes ==
    [kind : {"exit"}, returncode : {0, 1}, stdout : Stdouts]
        \cup [kind : {"timeout", "oserror"}, returncode : {0}, stdout : {<<>>}]

NotRun == [kind |-> "notrun", returncode |-> 0, stdout |-> <<>>]

Return(text) == [kind |-> "return", text |-> text]
Raise == [kind |-> "raise", text |-> <<>>]
FallThrough == [kind |-> "fall", text |-> <<>>]

\* Mutant: the `if out` test is missing
OllamaAttemptNoEmptyCheck(outcome) ==
    IF outcome.kind # "exit" THEN Raise
    ELSE IF outcome.returncode = 0
         THEN Return(Strip(outcome.stdout))
         ELSE FallThrough

\* The body of the try block: run ollama and return its stripped output when
\* the return code is 0 and the output is not empty
OllamaAttempt(outcome) ==
    IF outcome.kind # "exit" THEN Raise
    ELSE IF outcome.returncode = 0 /\ Strip(outcome.stdout) # <<>>
         THEN Return(Strip(outcome.stdout))
         ELSE FallThrough

\* except Exception: fall through to the fallback
Caught(r) == IF r.kind = "raise" THEN FallThrough ELSE r

\* generate_response; installed is bool(shutil.which("ollama"))
GenerateResponseWith(fallback, installed, outcome) ==
    LET r == IF installed THEN Caught(OllamaAttempt(outcome)) ELSE FallThrough
    IN  IF r.kind = "fall" THEN Return(fallback) ELSE r

\* server.py's generate_response
GenerateResponse(prompt, installed, outcome) ==
    GenerateResponseWith(FallbackServer(prompt), installed, outcome)

\* model.py's generate_response
ModelGenerateResponse(prompt, installed, outcome) ==
    GenerateResponseWith(FallbackModel(prompt), installed, outcome)

GenInit ==
    /\ gen = [fn |-> "none", prompt |-> <<>>, installed |-> FALSE,
              outcome |-> NotRun, result |-> FallThrough]
    /\ served = 0

\* A call of server.py's generate_response (POST /generate)
GenerateServer ==
    /\ served < MaxRequests
    /\ \E prompt \in Prompts, installed \in BOOLEAN, outcome \in Outcomes :
          LET seen == IF installed THEN outcome ELSE NotRun
          IN  gen' = [fn |-> "server", prompt |-> prompt, installed |-> installed,
                      outcome |-> seen,
                      result |-> GenerateResponse(prompt, installed, seen)]
    /\ served' = served + 1
    /\ UNCHANGED <<guiVars, janVars>>

\* A call of model.py's generate_response
GenerateModel ==
    /\ served < MaxRequests
    /\ \E prompt \in Prompts, installed \in BOOLEAN, outcome \in Outcomes :
          LET seen == IF installed THEN outcome ELSE NotRun
          IN  gen' = [fn |-> "model", prompt |-> prompt, installed |-> installed,
                      outcome |-> seen,
                      result |-> ModelGenerateResponse(prompt, installed, seen)]
    /\ served' = served + 1
    /\ UNCHANGED <<guiVars, janVars>>

GenNext ==
    \/ GenerateServer
    \/ GenerateModel

----------------------------------------------------------------------------
(* server.py: the audio-file janitor *)

SleepSeconds == 600

\* clean_old_files(older_than_seconds=2 * 3600)
CleanerThreshold == 2 * 3600

\* Entries found in AUDIO_OUTPUT_DIR at start-up (makedirs(exist_ok=True)
\* keeps an existing directory): a file just over two hours old, one exactly
\* two hours old, one between the default hour and two hours, and an old
\* sub-directory
Leftovers ==
    [old  |-> [kind |-> "file", mtime |-> StartClock - CleanerThreshold - 1],
     edge |-> [kind |-> "file", mtime |-> StartClock - CleanerThreshold],
     mid  |-> [kind |-> "file", mtime |-> StartClock - 5000],
     sub  |-> [kind |-> "dir",  mtime |-> StartClock - 3 * 3600]]

\* Names safe_filename gives to new files (a fresh uuid suffix each)
Fresh == {"speech1"}

Restrict(f, D) == [n \in D |-> f[n]]

\* The cleaner thread is started at import, before anything else runs
JanInitOf(dirs) ==
    /\ \E D \in dirs : files = Restrict(Leftovers, D)
    /\ clock = StartClock
    /\ jpc = "run"
    /\ now = 0
    /\ thr = 0
    /\ todo = {}
    /\ sweeps = 0
    /\ removed = {}
    /\ listed = {}
    /\ failed = {}

\* POST /speak writes a new file under a name never used before
Speak ==
    /\ \E name \in Fresh \ (DOMAIN files \cup {e.name : e \in removed}) :
          files' = [n \in DOMAIN files \cup {name} |->
                       IF n = name THEN [kind |-> "file", mtime |-> clock] ELSE files[n]]
    /\ UNCHANGED <<clock, jpc, now, thr, todo, sweeps, removed, listed, failed>>
    /\ UNCHANGED <<guiVars, genVars>>

\* The loop calls clean_old_files: now = time.time(), os.listdir succeeds
CleanerCall ==
    /\ jpc = "run"
    /\ sweeps' = sweeps + 1
    /\ now' = clock
    /\ thr' = CleanerThreshold
    /\ todo' = DOMAIN files
    /\ listed' = DOMAIN files
    /\ failed' = {}
    /\ jpc' = "sweep"
    /\ UNCHANGED <<files, clock, removed>>
    /\ UNCHANGED <<guiVars, genVars>>

\* Where the loop goes when clean_old_files raises: except Exception: pass,
\* then time.sleep
LoopCaught == "sleep"

\* The loop calls clean_old_files and os.listdir raises
CleanerCallFails ==
    /\ jpc = "run"
    /\ sweeps' = sweeps + 1
    /\ now' = clock
    /\ thr' = CleanerThreshold
    /\ todo' = {}
    /\ listed' = {}
    /\ failed' = {}
    /\ jpc' = LoopCaught
    /\ UNCHANGED <<files, clock, removed>>
    /\ UNCHANGED <<guiVars, genVars>>

Faults == {"none", "stat", "remove"}

\* One pass of the for loop's body on fname: what it removes and whether it
\* raised (getmtime or os.remove failing)
VisitFile(dir, fname, t, older, fault) ==
    IF fname \notin DOMAIN dir \/ dir[fname].kind # "file"
    THEN [remove |-> FALSE, raised |-> FALSE]
    ELSE IF fault = "stat"
    THEN [remove |-> FALSE, raised |-> TRUE]
    ELSE IF t - dir[fname].mtime > older
    THEN IF fault = "remove"
         THEN [remove |-> FALSE, raised |-> TRUE]
         ELSE [remove |-> TRUE, raised |-> FALSE]
    ELSE [remove |-> FALSE, raised |-> FALSE]

\* Mutant: no try inside the loop, an exception ends the sweep
AfterVisitAbort(left, fname, raised) == IF raised THEN {} ELSE left \ {fname}

\* The names left to visit after fname: the try inside the loop swallows the
\* exception, the loop goes on
AfterVisit(left, fname, raised) == left \ {fname}

\* The for loop visits one name of the listing (os.listdir's order is
\* arbitrary)
CleanFile ==
    /\ jpc = "sweep"
    /\ todo # {}
    /\ \E fname \in todo, fault \in Faults :
          LET r == VisitFile(files, fname, now, thr, fault)
          IN  /\ files' = IF r.remove THEN Restrict(files, DOMAIN files \ {fname}) ELSE files
              /\ removed' = IF r.remove
                            THEN removed \cup {[name |-> fname, kind |-> files[fname].kind,
                                                mtime |-> files[fname].mtime, at |-> now]}
                            ELSE removed
              /\ failed' = IF r.raised THEN failed \cup {fname} ELSE failed
              /\ todo' = AfterVisit(todo, fname, r.raised)
    /\ UNCHANGED <<clock, jpc, now, thr, sweeps, listed>>
    /\ UNCHANGED <<guiVars, genVars>>

\* The listing is exhausted: clean_old_files returns
CleanReturn ==
    /\ jpc = "sweep"
    /\ todo = {}
    /\ jpc' = "sleep"
    /\ UNCHANGED <<files, clock, now, thr, todo, sweeps, removed, listed, failed>>
    /\ UNCHANGED <<guiVars, genVars>>

\* time.sleep(600), then the next iteration of while True
Sleep ==
    /\ jpc = "sleep"
    /\ sweeps < MaxSweeps
    /\ clock' = clock + SleepSeconds
    /\ jpc' = "run"
    /\ UNCHANGED <<files, now, thr, todo, sweeps, removed, listed, failed>>
    /\ UNCHANGED <<guiVars, genVars>>

JanNext ==
    \/ Speak
    \/ CleanerCall
    \/ CleanerCallFails
    \/ CleanFile
    \/ CleanReturn
    \/ Sleep

\* The GUI process, beside a backend that is not looked at
Init == GuiInit /\ GenInit /\ JanInitOf({{}})

Spec == Init /\ [][GuiNext]_vars

\* The backend process, beside a GUI that is not looked at
ServerInit ==
    /\ GuiInit /\ stream = "none"
    /\ GenInit
    /\ JanInitOf(SUBSET DOMAIN Leftovers)

GenerateInit ==
    /\ GuiInit /\ stream = "none"
    /\ GenInit
    /\ JanInitOf({{}})

\* The backend serving generation requests
SpecGenerate == GenerateInit /\ [][GenNext]_vars

\* The backend's cleaner thread beside /speak requests
SpecJanitor == ServerInit /\ [][JanNext]_vars

----------------------------------------------------------------------------
(* The sphere with the microphone unavailable: __init__ took the except     *)
(* branch, no callback is registered and only the timer runs.               *)

IdleInit == Init /\ stream = "none"

OnTickIdle == OnTickStart(IdleTicks)

IdleNext ==
    \/ OnTickIdle
    \/ OnTickTest
    \/ OnTickUpdate

SpecIdle == IdleInit /\ [][IdleNext]_vars

----------------------------------------------------------------------------
(* The sphere fed one block before every tick: arbitrary audio for the      *)
(* first LoudTicks ticks, all-zero blocks from then on.                     *)

SilenceInit == Init /\ stream = "started"

FeedBlock ==
    /\ pc = "idle"
    /\ audio_q = <<>>
    /\ AudioCallbackOf(IF nticks < LoudTicks THEN Blocks ELSE {Silence}, SilenceTicks)

OnTickFed ==
    /\ audio_q # <<>>
    /\ OnTickStart(SilenceTicks)

SilenceNext ==
    \/ FeedBlock
    \/ OnTickFed
    \/ OnTickTest
    \/ OnTickGet
    \/ OnTickUpdate

SpecSilence == SilenceInit /\ [][SilenceNext]_vars /\ WF_vars(SilenceNext)

----------------------------------------------------------------------------
(* Properties of the sphere *)

Abs(x) == IF x >= 0 THEN x ELSE 0 - x

\* The blocks got so far, in order
ConsumedBlocks == [i \in 1..Len(consumed) |-> consumed[i][1]]

\* The indices of the blocks got by on_tick call number t
GotIn(t) == {i \in 1..Len(consumed) : consumed[i][2] = t}

RECURSIVE SumMeanSq(_)
SumMeanSq(I) ==
    IF I = {} THEN 0
    ELSE LET i == CHOOSE j \in I : TRUE
         IN  MeanSq(consumed[i][1]) + SumMeanSq(I \ {i})

\* C1: the smoothed loudness self.rms is never negative, whatever blocks
\* (negative samples included) and whatever ticks (empty ones included) occur.
RmsNonNegative == rms >= 0

\* A tick has folded a block of negative samples into a positive loudness.
RmsNonNegativeWitness ==
    /\ pc = "idle"
    /\ rms > 0
    /\ \E i \in 1..Len(consumed) : consumed[i][1] = ConstBlock(0 - Scale)

\* C2: starting from pulse = 0, pulse stays within [0, 1] after any sequence
\* of ticks and any audio input.
PulseInUnitRange == 0 <= pulse /\ pulse <= Scale

\* A tick whose target was clamped to 1 has driven the pulse above 0.3.
PulseInUnitRangeWitness ==
    /\ pc = "idle"
    /\ nticks >= 1
    /\ (Breathe(tick) * 8) \div 10 + rms * 20 > Scale
    /\ Target(tick, rms) = Scale
    /\ pulse > 3 * (Scale \div 10)

\* C3: an on_tick call that found the queue empty (count = 0 when the loop
\* is left) leaves self.rms unchanged and advances self.tick by exactly 0.05,
\* so the phase strictly increases.
EmptyTickFrame ==
    [][(pc = "update" /\ count = 0 /\ pc' = "idle")
          => (rms' = rms /\ tick' = tick + 500 /\ tick' > tick)]_vars

\* An empty tick has completed and kept a positive loudness from an earlier
\* tick.
EmptyTickFrameWitness ==
    /\ pc = "idle"
    /\ nticks >= 2
    /\ count = 0
    /\ rms > 0
    /\ tick = nticks * 500

\* C6: put never waits (the callback is enabled whenever the stream runs),
\* the blocks got followed by the blocks still queued are exactly the blocks
\* pushed, in order, and inside a tick count and the accumulated mean squares
\* are those of the blocks that tick got: each block is counted in one tick.
ExactlyOnceInOrder ==
    /\ (stream = "started" /\ Len(pushed) < MaxPush) => ENABLED AudioCallback
    /\ pushed = ConsumedBlocks \o audio_q
    /\ \A i \in 1..Len(consumed) : consumed[i][2] \in 1..nticks
    /\ \A i, j \in 1..Len(consumed) : i <= j => consumed[i][2] <= consumed[j][2]
    /\ pc # "idle" =>
          /\ count = Cardinality(GotIn(nticks))
          /\ acc = SumMeanSq(GotIn(nticks))

\* Two ticks have each got a block while a third block waits in the queue.
ExactlyOnceInOrderWitness ==
    /\ Len(consumed) >= 2
    /\ consumed[1][2] # consumed[2][2]
    /\ audio_q # <<>>
    /\ pc = "update"
    /\ count >= 1

\* C7: on_tick never waits on an empty queue: whenever it is about to call
\* get() the queue holds a block; and the loop is left, for the update, as
\* soon as empty() is observed true.
DrainNeverWaits ==
    /\ [](pc = "get" => audio_q # <<>>)
    /\ [][(pc = "test" /\ audio_q = <<>> /\ pc' # pc) => pc' = "update"]_vars
    /\ [][(pc = "test" /\ pc' = "update") => audio_q = <<>>]_vars

\* on_tick is about to get a block while the producer has pushed another
\* one since the empty() test.
DrainNeverWaitsWitness ==
    /\ pc = "get"
    /\ Len(audio_q) >= 2
    /\ count >= 1

\* C8: from the fresh widget, one tick that drains a single block of samples
\* all 0.1 gives rms = 0.015, target within 0.001 of 0.72 and pulse within
\* 0.001 of 0.144.
ScenarioTenth ==
    (pc = "idle" /\ nticks = 1 /\ consumed = << <<Tenth, 1>> >>) =>
        /\ rms = 15 * (Scale \div 1000)
        /\ Abs(Target(tick, rms) - 72 * (Scale \div 100)) <= Scale \div 1000
        /\ Abs(pulse - 144 * (Scale \div 1000)) <= Scale \div 1000

\* The scenario has run: one tick, one block of 0.1 drained.
ScenarioTenthWitness ==
    /\ pc = "idle"
    /\ nticks = 1
    /\ consumed = << <<Tenth, 1>> >>
    /\ tick = 500
    /\ rms > 0

\* C5: with no block ever enqueued, self.rms stays 0, the target of every
\* tick is breathe*0.8 and below 1, and pulse stays within [0, 0.8], through
\* a full oscillator period of 126 ticks and beyond.
IdleBreathing ==
    /\ rms = 0
    /\ 0 <= pulse /\ pulse <= 8 * (Scale \div 10)
    /\ Target(tick, rms) = (Breathe(tick) * 8) \div 10
    /\ Target(tick, rms) < Scale

\* 126 ticks have run without a block and the sphere still breathes.
IdleBreathingWitness ==
    /\ pc = "idle"
    /\ nticks = 126
    /\ pushed = <<>>
    /\ pulse > 0

\* The last k ticks each drained at least one block, all of them silent
SilentRun(k) ==
    /\ pc = "idle"
    /\ nticks >= k
    /\ \A t \in (nticks - k + 1)..nticks :
          /\ GotIn(t) # {}
          /\ \A i \in GotIn(t) : consumed[i][1] = Silence

----------------------------------------------------------------------------
(* Properties of the backend *)

\* ollama was installed, exited with code 0 and printed something
OllamaSucceeded ==
    /\ gen.installed
    /\ gen.outcome.kind = "exit"
    /\ gen.outcome.returncode = 0
    /\ Strip(gen.outcome.stdout) # <<>>

StartsWith(text, p) == Len(text) >= Len(p) /\ SubSeq(text, 1, Len(p)) = p

FallbackPrefixOf(fn) == IF fn = "server" THEN FallbackPrefixServer ELSE FallbackPrefixModel

\* C9 as stated: generate_response never raises and returns a non-empty
\* text, the stripped ollama output exactly when ollama succeeded with a
\* non-empty output, and otherwise the fallback text containing the prompt.
GenerateAsClaimed ==
    gen.fn # "none" =>
        /\ gen.result.kind = "return"
        /\ gen.result.text # <<>>
        /\ IF OllamaSucceeded
           THEN gen.result.text = Strip(gen.outcome.stdout)
           ELSE /\ StartsWith(gen.result.text, FallbackPrefixOf(gen.fn))
                /\ Contains(gen.result.text, gen.prompt)

\* C9 as amended: as above, but the fallback text of server.py holds only
\* the first 1000 characters of the prompt after its prefix (model.py's
\* holds the whole prompt).
GenerateFallsBack ==
    gen.fn # "none" =>
        /\ gen.result.kind = "return"
        /\ gen.result.text # <<>>
        /\ IF OllamaSucceeded
           THEN gen.result.text = Strip(gen.outcome.stdout)
           ELSE IF gen.fn = "server"
           THEN gen.result.text = FallbackPrefixServer \o SubSeq(gen.prompt, 1, Min(1000, Len(gen.prompt)))
           ELSE gen.result.text = FallbackPrefixModel \o gen.prompt

\* server.py's generate_response has answered a prompt of more than 1000
\* characters with the fallback after ollama timed out.
GenerateFallsBackWitness ==
    /\ gen.fn = "server"
    /\ gen.installed
    /\ gen.outcome.kind = "timeout"
    /\ Len(gen.prompt) > 1000
    /\ gen.result.kind = "return"
    /\ Len(gen.result.text) = Len(FallbackPrefixServer) + 1000

\* C10: the janitor removes only regular files more than two hours old by
\* the sweep's own clock; when a sweep returns, every regular file it listed
\* that is that old is gone unless visiting it raised; an error never kills
\* the thread: it sleeps 600 s and sweeps again with the two-hour threshold.
JanitorSweeps ==
    /\ \A e \in removed : e.kind = "file" /\ e.at - e.mtime > 2 * 3600
    /\ jpc = "sleep" =>
          \A n \in listed \cap DOMAIN files :
              (files[n].kind = "file" /\ now - files[n].mtime > 2 * 3600) => n \in failed
    /\ jpc \in {"run", "sweep", "sleep"}
    /\ jpc = "run" => (clock = StartClock + 600 * sweeps /\ ENABLED CleanerCall)
    /\ jpc # "run" => (clock = StartClock + 600 * (sweeps - 1)
                          /\ now = clock /\ thr = 2 * 3600)
    /\ (jpc = "sleep" /\ sweeps < MaxSweeps) => ENABLED Sleep

\* After three sweeps the file that was exactly two hours old at start-up
\* has been removed (at the second sweep or later), the younger one is still
\* there, and a visit of the last sweep raised.
JanitorSweepsWitness ==
    /\ jpc = "sleep"
    /\ sweeps = 3
    /\ \E e \in removed : e.name = "edge" /\ e.at > StartClock
    /\ "mid" \in DOMAIN files
    /\ failed # {}
    /\ listed # {}

=============================================================================
